---- MODULE Spec2Model ----
(***************************************************************************)
(* A model of plpydbapi (src/plpydbapi.py): the DB-API Connection and      *)
(* Cursor objects layered on PL/Python's plpy module.                      *)
(*                                                                         *)
(* One Connection (the session of the host process) and the cursors made   *)
(* from it are the state.  The host engine (plpy.prepare, plpy.execute,    *)
(* plpy.subtransaction, the pg_type catalog) is the environment: what it   *)
(* answers is an input of the call that asks it.  Every method is one      *)
(* action, since the module is single-threaded (threadsafety = 0).         *)
(*                                                                         *)
(* Python's None is the empty tuple None, and a value v that may be None   *)
(* is held as Some(v) = <<v>>.  A result row is an atom; a result column   *)
(* is one type oid (results have one column here).                         *)
(***************************************************************************)
EXTENDS Integers, Sequences, FiniteSets, TLC

\* ----------------------------------------------------------------- bounds
\* rows the host returns for one statement: at most MaxRows
MaxRows == 2
\* largest size passed to fetchmany / assigned to arraysize
MaxSize == 2
\* fetchmany adds its size to Cursor.rownumber without any limit: rownumber
\* is kept within MaxOver of the end of the rows
MaxOver == 1
\* parameter sets of one executemany call: at most MaxSets
MaxSets == 2

\* ------------------------------------------------------- program constants
SPI_OK_UTILITY == 4
SPI_OK_SELECT == 5
SPI_OK_INSERT_RETURNING == 11
SPI_OK_DELETE_RETURNING == 12
SPI_OK_UPDATE_RETURNING == 13
\* a status of the host that the module does not name (SPI_OK_INSERT)
SPI_OK_INSERT == 7

\* ------------------------------------------------------------ Python values
None == <<>>
Some(v) == <<v>>
IsNone(o) == o = <<>>
Val(o) == o[1]

Min(a, b) == IF a <= b THEN a ELSE b

\* s[a:b] of Python for 0 <= a, 0 <= b (clipped to the sequence)
Slice(s, a, b) == SubSeq(s, a + 1, Min(b, Len(s)))

\* s[i] of Python for 0 <= i: the item, or IndexError
IndexOK(s, i) == i < Len(s)

\* all sequences over S of length 0..n
RECURSIVE SeqsUpTo(_, _)
SeqsUpTo(S, n) ==
  IF n = 0 THEN {<<>>}
  ELSE LET shorter == SeqsUpTo(S, n - 1)
       IN shorter \cup {Append(s, x) : s \in {t \in shorter : Len(t) = n - 1}, x \in S}

\* -------------------------------------------------------------- the objects
CursorOrder == <<"c1", "c2">>
Cursors == {CursorOrder[i] : i \in DOMAIN CursorOrder}
RowVals == {"a", "b"}

\* class attributes of Connection: closed = False, _subxact = None
NewConnection == [created |-> TRUE, closed |-> FALSE, subxact |-> None]
NoConnection == [created |-> FALSE, closed |-> FALSE, subxact |-> None]

\* class attributes of Cursor
NewCursor ==
  [created |-> TRUE, description |-> None, rowcount |-> -1, arraysize |-> 1,
   rownumber |-> None, closed |-> FALSE, execute_result |-> None]
NoCursor == [NewCursor EXCEPT !.created = FALSE]

VARIABLES connection, cursors, typoid_typeobjs, hasColnames, hostOpen, last, hist,
          env

vars ==
  <<connection, cursors, typoid_typeobjs, hasColnames, hostOpen, last, hist, env>>

\* ------------------------------------------------------------- Connection
\* What a method call gives back besides its return value: the exception it
\* raised ("none" when it returned) and the host calls it made, in order:
\* "enter", "exit(None)" and "exit(fake exception)" on the subtransaction,
\* "prepare" and "execute" for plpy.prepare and plpy.execute of the
\* statement, "pg_type" for the catalog query of get_type_obj; a host call
\* that raised SPIError is marked ":SPIError".

\* a variant of _ensure_transaction without the test of _subxact
EnsureTransaction_Eager(conn) ==
  [conn |-> [conn EXCEPT !.subxact = Some("subtransaction")], host |-> <<"enter">>]

\* a variant of _ensure_transaction that enters no subtransaction
EnsureTransaction_Never(conn) == [conn |-> conn, host |-> <<>>]

\* Connection._ensure_transaction
EnsureTransaction(conn) ==
  IF IsNone(conn.subxact)
  THEN [conn |-> [conn EXCEPT !.subxact = Some("subtransaction")],
        host |-> <<"enter">>]
  ELSE [conn |-> conn, host |-> <<>>]

\* a variant of commit that keeps the reference to the subtransaction
Commit_KeepsScope(conn) ==
  IF conn.closed
  THEN [conn |-> conn, raised |-> "Error", host |-> <<>>]
  ELSE [conn |-> conn, raised |-> "none",
        host |-> IF ~IsNone(conn.subxact) THEN <<"exit(None)">> ELSE <<>>]

\* Connection.commit
Commit(conn) ==
  IF conn.closed
  THEN [conn |-> conn, raised |-> "Error", host |-> <<>>]
  ELSE [conn |-> [conn EXCEPT !.subxact = None], raised |-> "none",
        host |-> IF ~IsNone(conn.subxact) THEN <<"exit(None)">> ELSE <<>>]

\* Connection.rollback
Rollback(conn) ==
  IF conn.closed
  THEN [conn |-> conn, raised |-> "Error", host |-> <<>>]
  ELSE [conn |-> [conn EXCEPT !.subxact = None], raised |-> "none",
        host |-> IF ~IsNone(conn.subxact) THEN <<"exit(fake exception)">> ELSE <<>>]

\* a variant of close that commits the pending subtransaction
Close_Commits(conn) ==
  IF conn.closed
  THEN [conn |-> conn, raised |-> "Error", host |-> <<>>]
  ELSE LET cm == Commit(conn)
       IN [conn |-> [cm.conn EXCEPT !.closed = TRUE], raised |-> cm.raised,
           host |-> cm.host]

\* Connection.close
Close(conn) ==
  IF conn.closed
  THEN [conn |-> conn, raised |-> "Error", host |-> <<>>]
  ELSE LET rb == Rollback(conn)
       IN [conn |-> [rb.conn EXCEPT !.closed = TRUE], raised |-> rb.raised,
           host |-> rb.host]

\* The host's side of plpy.subtransaction(): the scopes entered and not yet
\* exited after the host calls ev, starting from n of them.  A call that
\* breaks the protocol (a second enter, an exit with nothing entered) leaves
\* the count outside {0, 1} and it stays there.
RECURSIVE ScopesAfter(_, _)
ScopesAfter(n, ev) ==
  IF ev = <<>> \/ n \notin {0, 1} THEN n
  ELSE ScopesAfter(CASE Head(ev) = "enter" -> n + 1
                     [] Head(ev) \in {"exit(None)", "exit(fake exception)"} -> n - 1
                     [] OTHER -> n,
                   Tail(ev))

\* ------------------------------------------------------------ fetch, scroll
\* a variant of fetchone that leaves rownumber where it is
FetchOne_Stays(cur) ==
  IF IsNone(cur.execute_result)
  THEN [cur |-> cur, raised |-> "Error", ret |-> None]
  ELSE LET res == Val(cur.execute_result)
           pos == Val(cur.rownumber)
       IN IF pos >= Len(res)
          THEN [cur |-> cur, raised |-> "none", ret |-> None]
          ELSE [cur |-> cur, raised |-> "none", ret |-> Some(res[pos + 1])]

\* Cursor.fetchone
FetchOne(cur) ==
  IF IsNone(cur.execute_result)
  THEN [cur |-> cur, raised |-> "Error", ret |-> None]
  ELSE IF IsNone(cur.rownumber)
  THEN [cur |-> cur, raised |-> "TypeError", ret |-> None]
  ELSE LET res == Val(cur.execute_result)
           pos == Val(cur.rownumber)
       IN IF pos = Len(res)
          THEN [cur |-> cur, raised |-> "none", ret |-> None]
          ELSE IF ~IndexOK(res, pos)
          THEN [cur |-> cur, raised |-> "IndexError", ret |-> None]
          ELSE [cur |-> [cur EXCEPT !.rownumber = Some(pos + 1)],
                raised |-> "none", ret |-> Some(res[pos + 1])]

\* a variant of fetchmany whose slice is one row longer
FetchMany_OneMore(cur, size) ==
  IF IsNone(cur.execute_result)
  THEN [cur |-> cur, raised |-> "Error", ret |-> <<>>]
  ELSE LET res == Val(cur.execute_result)
           pos == Val(cur.rownumber)
           n == IF IsNone(size) THEN cur.arraysize ELSE Val(size)
       IN [cur |-> [cur EXCEPT !.rownumber = Some(pos + n)],
           raised |-> "none", ret |-> Slice(res, pos, pos + n + 1)]

\* Cursor.fetchmany; size is None (the default) or Some(n)
FetchMany(cur, size) ==
  IF IsNone(cur.execute_result)
  THEN [cur |-> cur, raised |-> "Error", ret |-> <<>>]
  ELSE IF IsNone(cur.rownumber)
  THEN [cur |-> cur, raised |-> "TypeError", ret |-> <<>>]
  ELSE LET res == Val(cur.execute_result)
           pos == Val(cur.rownumber)
           n == IF IsNone(size) THEN cur.arraysize ELSE Val(size)
       IN [cur |-> [cur EXCEPT !.rownumber = Some(pos + n)],
           raised |-> "none", ret |-> Slice(res, pos, pos + n)]

\* a variant of fetchall that leaves rownumber where it is
FetchAll_Stays(cur) ==
  IF IsNone(cur.execute_result)
  THEN [cur |-> cur, raised |-> "Error", ret |-> <<>>]
  ELSE LET res == Val(cur.execute_result)
           pos == Val(cur.rownumber)
       IN [cur |-> cur, raised |-> "none", ret |-> Slice(res, pos, Len(res))]

\* Cursor.fetchall
FetchAll(cur) ==
  IF IsNone(cur.execute_result)
  THEN [cur |-> cur, raised |-> "Error", ret |-> <<>>]
  ELSE IF IsNone(cur.rownumber)
  THEN [cur |-> cur, raised |-> "TypeError", ret |-> <<>>]
  ELSE LET res == Val(cur.execute_result)
           pos == Val(cur.rownumber)
       IN [cur |-> [cur EXCEPT !.rownumber = Some(Len(res))],
           raised |-> "none", ret |-> Slice(res, pos, Len(res))]

\* Cursor.next
CursorNext(cur) ==
  LET one == FetchOne(cur)
  IN IF one.raised = "none" /\ IsNone(one.ret)
     THEN [one EXCEPT !.raised = "StopIteration"]
     ELSE one

\* a variant of scroll that refuses the position just after the last row
Scroll_Short(cur, value, mode) ==
  IF mode = "relative" /\ IsNone(cur.rownumber)
  THEN [cur |-> cur, raised |-> "TypeError"]
  ELSE IF mode \notin {"relative", "absolute"}
  THEN [cur |-> cur, raised |-> "ValueError"]
  ELSE LET newpos == IF mode = "relative" THEN Val(cur.rownumber) + value ELSE value
       IN IF newpos < 0
          THEN [cur |-> cur, raised |-> "IndexError"]
          ELSE IF IsNone(cur.execute_result)
          THEN [cur |-> cur, raised |-> "TypeError"]
          ELSE IF newpos >= Len(Val(cur.execute_result))
          THEN [cur |-> cur, raised |-> "IndexError"]
          ELSE [cur |-> [cur EXCEPT !.rownumber = Some(newpos)], raised |-> "none"]

\* Cursor.scroll
Scroll(cur, value, mode) ==
  IF mode = "relative" /\ IsNone(cur.rownumber)
  THEN [cur |-> cur, raised |-> "TypeError"]
  ELSE IF mode \notin {"relative", "absolute"}
  THEN [cur |-> cur, raised |-> "ValueError"]
  ELSE LET newpos == IF mode = "relative" THEN Val(cur.rownumber) + value ELSE value
       IN IF newpos < 0
          THEN [cur |-> cur, raised |-> "IndexError"]
          ELSE IF IsNone(cur.execute_result)
          THEN [cur |-> cur, raised |-> "TypeError"]
          ELSE IF newpos > Len(Val(cur.execute_result))
          THEN [cur |-> cur, raised |-> "IndexError"]
          ELSE [cur |-> [cur EXCEPT !.rownumber = Some(newpos)], raised |-> "none"]

\* -------------------------------------------------------------- parameters
\* A parameter is None or a value, which is known by the isinstance checks
\* it passes (isa) and by whether it has a tobytes method.
PyValue(isa, tobytes) == [none |-> FALSE, isa |-> isa, tobytes |-> tobytes]
PyNone == [none |-> TRUE, isa |-> {}, tobytes |-> FALSE]
PyStr == PyValue({}, FALSE)
PyTrue == PyValue({"bool", "int"}, FALSE)

\* a variant of py_param_to_pg_type that tests for the integers first
py_param_to_pg_type_IntFirst(param) ==
  IF "long" \in param.isa THEN "int"
  ELSE IF "int" \in param.isa THEN "int"
  ELSE IF "bool" \in param.isa THEN "bool"
  ELSE IF "Decimal" \in param.isa THEN "numeric"
  ELSE IF "float" \in param.isa THEN "float8"
  ELSE IF "byte_types" \in param.isa THEN "bytea"
  ELSE IF "list" \in param.isa THEN "text[]"
  ELSE "text"

\* Cursor.py_param_to_pg_type
py_param_to_pg_type(param) ==
  IF "bool" \in param.isa THEN "bool"
  ELSE IF "Decimal" \in param.isa THEN "numeric"
  ELSE IF "float" \in param.isa THEN "float8"
  ELSE IF "long" \in param.isa THEN "int"
  ELSE IF "int" \in param.isa THEN "int"
  ELSE IF "byte_types" \in param.isa THEN "bytea"
  ELSE IF "list" \in param.isa THEN "text[]"
  ELSE "text"

\* "$%d" % i
Dollar(i) == "$" \o ToString(i)

\* a variant of that loop which numbers the placeholders by the position of
\* the parameter
RECURSIVE BindParameters_ByPosition(_, _)
BindParameters_ByPosition(parameters, acc) ==
  IF parameters = <<>> THEN acc
  ELSE LET param == Head(parameters)
           i == Len(acc.placeholders) + 1
           pgtype == py_param_to_pg_type(param)
       IN BindParameters_ByPosition(
            Tail(parameters),
            IF param.none
            THEN [acc EXCEPT !.placeholders = Append(@, "NULL")]
            ELSE [placeholders |-> Append(acc.placeholders, Dollar(i)),
                  types |-> Append(acc.types, pgtype),
                  values |-> Append(acc.values,
                                    IF pgtype = "bytea" /\ param.tobytes
                                    THEN [param |-> param, as |-> "tobytes()"]
                                    ELSE [param |-> param, as |-> "itself"])])

\* The loop of Cursor.execute over the parameters: the placeholders, the
\* types and the values it builds, from the ones built so far (acc).
RECURSIVE BindParameters(_, _)
BindParameters(parameters, acc) ==
  IF parameters = <<>> THEN acc
  ELSE LET param == Head(parameters)
           i == Len(acc.types) + 1
           pgtype == py_param_to_pg_type(param)
       IN BindParameters(
            Tail(parameters),
            IF param.none
            THEN [acc EXCEPT !.placeholders = Append(@, "NULL")]
            ELSE [placeholders |-> Append(acc.placeholders, Dollar(i)),
                  types |-> Append(acc.types, pgtype),
                  values |-> Append(acc.values,
                                    IF pgtype = "bytea" /\ param.tobytes
                                    THEN [param |-> param, as |-> "tobytes()"]
                                    ELSE [param |-> param, as |-> "itself"])])

NoBinding == [placeholders |-> <<>>, types |-> <<>>, values |-> <<>>]

\* operation % tuple(placeholders): an operation is known by the number of
\* its %s markers, and the formatting raises TypeError unless the tuple has
\* as many items
FormatOK(operation, placeholders) == operation = Len(placeholders)

\* ------------------------------------------------------- column type objects
\* rows of the host's pg_type catalog
PgType ==
  {[oid |-> 16, typname |-> "bool", typcategory |-> "B"],
   [oid |-> 17, typname |-> "bytea", typcategory |-> "U"],
   [oid |-> 23, typname |-> "int4", typcategory |-> "N"],
   [oid |-> 25, typname |-> "text", typcategory |-> "S"]}

\* the type oids of the columns of results
ColOids == {16, 23}

\* _typname_typeobjs, _typcategory_typeobjs
TypnameTypeobjs == [n \in {"bytea"} |-> "BINARY"]
TypcategoryTypeobjs ==
  [c \in {"D", "N", "S", "T"} |->
     CASE c = "D" -> "DATETIME" [] c = "N" -> "NUMBER"
       [] c = "S" -> "STRING" [] c = "T" -> "DATETIME"]

\* the type object the loop of get_type_obj stores for a catalog row
RowTypeobj(row) ==
  IF row.typcategory \in DOMAIN TypcategoryTypeobjs
  THEN Some(TypcategoryTypeobjs[row.typcategory])
  ELSE IF row.typname \in DOMAIN TypnameTypeobjs
  THEN Some(TypnameTypeobjs[row.typname])
  ELSE None

\* _typoid_typeobjs after the loop of get_type_obj over the catalog rows
Populate(rows) ==
  LET kept == {r \in rows : ~IsNone(RowTypeobj(r))}
  IN [o \in {r.oid : r \in kept} |->
        Val(RowTypeobj(CHOOSE r \in kept : r.oid = o))]

\* what the host answers to the pg_type query of get_type_obj
CatalogOK == [error |-> FALSE, rows |-> PgType]
CatalogError == [error |-> TRUE, rows |-> {}]

\* get_type_obj
get_type_obj(cache, typeoid, catalog) ==
  LET ask == DOMAIN cache = {}
      filled == IF ask THEN Populate(catalog.rows) ELSE cache
  IN IF ask /\ catalog.error
     THEN [cache |-> cache, raised |-> "SPIError", ret |-> None,
           host |-> <<"pg_type:SPIError">>]
     ELSE [cache |-> filled, raised |-> "none",
           ret |-> IF typeoid \in DOMAIN filled THEN Some(filled[typeoid]) ELSE None,
           host |-> IF ask THEN <<"pg_type">> ELSE <<>>]

\* ------------------------------------------------------------------ execute
\* What the host answers to one execute call: whether plpy.prepare and
\* plpy.execute raise SPIError, and the result object (its status, rows,
\* nrows() and the type oid of its column).
RowStatuses ==
  {SPI_OK_SELECT, SPI_OK_INSERT_RETURNING, SPI_OK_DELETE_RETURNING,
   SPI_OK_UPDATE_RETURNING}

HostAnswer(prepare, execute, status, rows, nrows, coltype, catalog) ==
  [prepare |-> prepare, execute |-> execute, status |-> status, rows |-> rows,
   nrows |-> nrows, coltype |-> coltype, catalog |-> catalog]

\* The answers of the host with at most n rows, without the ones that differ
\* only in what the call never reads: ask says that the pg_type query will
\* be made.
HostAnswers(n, ask) ==
  {HostAnswer("SPIError", "ok", SPI_OK_UTILITY, <<>>, 0, 16, CatalogOK),
   HostAnswer("ok", "SPIError", SPI_OK_UTILITY, <<>>, 0, 16, CatalogOK),
   HostAnswer("ok", "ok", SPI_OK_UTILITY, <<>>, 0, 16, CatalogOK)}
  \cup {HostAnswer("ok", "ok", SPI_OK_INSERT, <<>>, k, 16, CatalogOK) : k \in 0..n}
  \cup {HostAnswer("ok", "ok", st, rows, Len(rows), oid, cat) :
          st \in RowStatuses, rows \in SeqsUpTo(RowVals, n), oid \in ColOids,
          cat \in IF ask THEN {CatalogOK, CatalogError} ELSE {CatalogOK}}

\* a variant of that part which takes rowcount from nrows() for every status
StoreResult_CountsAll(cur, cache, colnames, h) ==
  LET reset == [cur EXCEPT !.execute_result = None, !.rownumber = None,
                           !.description = None, !.rowcount = -1]
      typ == get_type_obj(cache, h.coltype, h.catalog)
      names == IF colnames THEN Some([name |-> Some("col"), type_code |-> typ.ret])
               ELSE IF Len(h.rows) > 0
               THEN Some([name |-> Some("col"), type_code |-> None])
               ELSE Some([name |-> None, type_code |-> None])
  IN IF h.status \notin RowStatuses
     THEN [cur |-> [reset EXCEPT !.rowcount = h.nrows], cache |-> cache,
           raised |-> "none", host |-> <<>>]
     ELSE IF colnames /\ typ.raised # "none"
     THEN [cur |-> [reset EXCEPT !.execute_result = Some(h.rows),
                                 !.rownumber = Some(0)],
           cache |-> typ.cache, raised |-> typ.raised, host |-> typ.host]
     ELSE [cur |-> [reset EXCEPT !.execute_result = Some(h.rows),
                                 !.rownumber = Some(0), !.description = names,
                                 !.rowcount = h.nrows],
           cache |-> IF colnames THEN typ.cache ELSE cache, raised |-> "none",
           host |-> IF colnames THEN typ.host ELSE <<>>]

\* the part of Cursor.execute after plpy.execute has returned res (= h)
StoreResult(cur, cache, colnames, h) ==
  LET reset == [cur EXCEPT !.execute_result = None, !.rownumber = None,
                           !.description = None, !.rowcount = -1]
      count == IF h.status = SPI_OK_UTILITY THEN -1 ELSE h.nrows
  IN IF h.status \in RowStatuses
     THEN LET rows == [reset EXCEPT !.execute_result = Some(h.rows),
                                    !.rownumber = Some(0)]
              typ == get_type_obj(cache, h.coltype, h.catalog)
          IN IF colnames
             THEN IF typ.raised # "none"
                  THEN [cur |-> rows, cache |-> typ.cache, raised |-> typ.raised,
                        host |-> typ.host]
                  ELSE [cur |-> [rows EXCEPT
                                   !.description = Some([name |-> Some("col"),
                                                         type_code |-> typ.ret]),
                                   !.rowcount = count],
                        cache |-> typ.cache, raised |-> "none", host |-> typ.host]
             ELSE [cur |-> [rows EXCEPT
                              !.description =
                                 IF Len(h.rows) > 0
                                 THEN Some([name |-> Some("col"), type_code |-> None])
                                 ELSE Some([name |-> None, type_code |-> None]),
                              !.rowcount = count],
                   cache |-> cache, raised |-> "none", host |-> <<>>]
     ELSE [cur |-> [reset EXCEPT !.rowcount = count], cache |-> cache,
           raised |-> "none", host |-> <<>>]

\* a variant of _is_closed that looks at the cursor's own flag only
IsClosed_OwnFlag(cur, conn) == cur.closed

\* Cursor._is_closed
IsClosed(cur, conn) == cur.closed \/ conn.closed

\* Cursor.execute
ExecuteCall(cur, conn, cache, colnames, operation, parameters, h) ==
  IF IsClosed(cur, conn)
  THEN [cur |-> cur, conn |-> conn, cache |-> cache, raised |-> "Error",
        host |-> <<>>]
  ELSE LET tx == EnsureTransaction(conn)
           bound == BindParameters(parameters, NoBinding)
       IN IF ~FormatOK(operation, bound.placeholders)
          THEN [cur |-> cur, conn |-> tx.conn, cache |-> cache,
                raised |-> "TypeError", host |-> tx.host]
          ELSE IF h.prepare = "SPIError"
          THEN [cur |-> cur, conn |-> tx.conn, cache |-> cache,
                raised |-> "Error", host |-> tx.host \o <<"prepare:SPIError">>]
          ELSE IF h.execute = "SPIError"
          THEN [cur |-> cur, conn |-> tx.conn, cache |-> cache,
                raised |-> "Error",
                host |-> tx.host \o <<"prepare", "execute:SPIError">>]
          ELSE LET st == StoreResult(cur, cache, colnames, h)
               IN [cur |-> st.cur, conn |-> tx.conn, cache |-> st.cache,
                   raised |-> st.raised,
                   host |-> tx.host \o <<"prepare", "execute">> \o st.host]

\* One turn of the loop of Cursor.executemany: the state s of the loop
\* (totalcount included) after the execute call that ended as ex.
ManyTurn(s, ex) ==
  [cur |-> ex.cur, conn |-> ex.conn, cache |-> ex.cache, raised |-> ex.raised,
   host |-> s.host \o ex.host,
   totalcount |-> IF ex.raised = "none" /\ s.totalcount # -1
                  THEN s.totalcount + ex.cur.rowcount
                  ELSE s.totalcount]

\* The loop of Cursor.executemany over the parameter sets, the host answering
\* the k-th execute with hs[k]; an exception ends it.
RECURSIVE ManyLoop(_, _, _, _, _)
ManyLoop(s, colnames, operation, seq_of_parameters, hs) ==
  IF seq_of_parameters = <<>> \/ s.raised # "none" THEN s
  ELSE ManyLoop(ManyTurn(s, ExecuteCall(s.cur, s.conn, s.cache, colnames, operation,
                                        Head(seq_of_parameters), Head(hs))),
                colnames, operation, Tail(seq_of_parameters), Tail(hs))

\* the end of Cursor.executemany, the loop having ended in state s
ManyEnd(s) ==
  [cur |-> IF s.raised = "none" THEN [s.cur EXCEPT !.rowcount = s.totalcount]
           ELSE s.cur,
   conn |-> s.conn, cache |-> s.cache, raised |-> s.raised, host |-> s.host]

\* Cursor.executemany
ExecuteManyCall(cur, conn, cache, colnames, operation, seq_of_parameters, hs) ==
  ManyEnd(ManyLoop([cur |-> cur, conn |-> conn, cache |-> cache,
                    raised |-> "none", host |-> <<>>, totalcount |-> 0],
                   colnames, operation, seq_of_parameters, hs))

\* --------------------------------------------------------------------- Init
Range(f) == {f[x] : x \in DOMAIN f}

ScopeCalls == {"enter", "exit(None)", "exit(fake exception)"}
IsScopeCall(e) == e \in ScopeCalls

\* last: the call made last, the cursor it was made on ("-": the
\* connection), its arguments (the size of fetchmany, the value and the mode
\* of scroll), the exception it raised ("none": it returned), what it
\* returned (the rows; None or one row for fetchone), the calls it made on
\* the host's subtransaction, in order, and the other host calls it made.
CallWith(op, c, args, raised, ret, host) ==
  [op |-> op, cur |-> c, args |-> args, raised |-> raised, ret |-> ret,
   scope |-> SelectSeq(host, IsScopeCall),
   asked |-> Range(host) \ ScopeCalls]

Call(op, c, raised, ret, host) == CallWith(op, c, <<>>, raised, ret, host)

\* hist[c], about the reading of the result buffer that cursor c holds:
\*   kind     the calls that read the buffer since execute built it: "none",
\*            "one" (fetchone and next only), "many" (fetchmany of a size
\*            >= 1 only), "mixed" (anything else)
\*   fetched  the rows those calls returned, in order (kind "one", "many")
\*   calls    the number of those calls, up to MaxCalls (kind "one")
MaxCalls == MaxRows + 2
NoHist == [kind |-> "none", fetched |-> <<>>, calls |-> 0]

\* env, about the environment of the calls:
\*   answers  the answers the host had ready for the execute calls of the
\*            call made last (execute: one, executemany: one per set)
\*   queries  the pg_type queries get_type_obj has made so far, up to
\*            MaxQueries
\*   args     the arguments a function is applied to
NoEnv == [answers |-> <<>>, queries |-> 0, args |-> <<>>]

Init ==
  /\ connection = NoConnection
  /\ cursors = [c \in Cursors |-> NoCursor]
  /\ typoid_typeobjs = <<>>
  /\ hasColnames \in BOOLEAN
  /\ hostOpen = 0
  /\ last = Call("import", "-", "none", <<>>, <<>>)
  /\ hist = [c \in Cursors |-> NoHist]
  /\ env = NoEnv

\* ------------------------------------------------------------------ actions
\* connect()
connect ==
  /\ ~connection.created
  /\ connection' = NewConnection
  /\ last' = Call("connect", "-", "none", <<>>, <<>>)
  /\ UNCHANGED <<cursors, typoid_typeobjs, hasColnames, hostOpen>>

\* Connection.cursor(): the cursors are made in the order c1, c2
Connection_cursor(c) ==
  /\ connection.created
  /\ ~cursors[c].created
  /\ \E i \in DOMAIN CursorOrder :
       /\ CursorOrder[i] = c
       /\ \A j \in 1..(i - 1) : cursors[CursorOrder[j]].created
  /\ cursors' = [cursors EXCEPT ![c] = NewCursor]
  /\ last' = Call("cursor", c, "none", <<>>, <<>>)
  /\ UNCHANGED <<connection, typoid_typeobjs, hasColnames, hostOpen>>

\* a call on the connection that ended as r
ConnectionCall(op, r) ==
  /\ connection.created
  /\ connection' = r.conn
  /\ hostOpen' = ScopesAfter(hostOpen, r.host)
  /\ last' = Call(op, "-", r.raised, <<>>, r.host)
  /\ UNCHANGED <<cursors, typoid_typeobjs, hasColnames>>

\* Connection.commit()
Connection_commit == ConnectionCall("commit", Commit(connection))

\* Connection.rollback()
Connection_rollback == ConnectionCall("rollback", Rollback(connection))

\* Connection.close()
Connection_close == ConnectionCall("close", Close(connection))

\* a variant of Cursor.close() that refuses a closed cursor, as
\* Connection.close() refuses a closed connection
Cursor_close_Once(c) ==
  /\ cursors[c].created
  /\ cursors' = [cursors EXCEPT ![c].closed = TRUE]
  /\ last' = Call("cursor.close", c, IF cursors[c].closed THEN "Error" ELSE "none",
                  <<>>, <<>>)
  /\ UNCHANGED <<connection, typoid_typeobjs, hasColnames, hostOpen>>

\* Cursor.close()
Cursor_close(c) ==
  /\ cursors[c].created
  /\ cursors' = [cursors EXCEPT ![c].closed = TRUE]
  /\ last' = Call("cursor.close", c, "none", <<>>, <<>>)
  /\ UNCHANGED <<connection, typoid_typeobjs, hasColnames, hostOpen>>

\* cursor.arraysize = n
Cursor_arraysize(c) ==
  /\ cursors[c].created
  /\ \E n \in 1..MaxSize :
       /\ cursors' = [cursors EXCEPT ![c].arraysize = n]
       /\ last' = Call("arraysize", c, "none", <<>>, <<>>)
  /\ UNCHANGED <<connection, typoid_typeobjs, hasColnames, hostOpen>>

\* The arguments of the execute calls: an operation with one %s marker, with
\* one parameter or with none, which the formatting refuses.
ExecuteArgs ==
  {[operation |-> 1, parameters |-> <<PyStr>>],
   [operation |-> 1, parameters |-> <<>>]}

Formats(args) ==
  FormatOK(args.operation, BindParameters(args.parameters, NoBinding).placeholders)

\* the host is asked for pg_type when the cache is empty and the result has
\* the colnames method
WillAsk == hasColnames /\ DOMAIN typoid_typeobjs = {}

\* the answer of a host that is not asked
Unasked == HostAnswer("ok", "ok", SPI_OK_UTILITY, <<>>, 0, 16, CatalogOK)

\* a variant in which the result is kept in attributes of the class, which
\* all cursors share
ExecuteDone_Shared(op, c, r) ==
  /\ cursors' = [d \in Cursors |->
                   IF d = c THEN r.cur
                   ELSE IF cursors[d].created
                   THEN [cursors[d] EXCEPT !.execute_result = r.cur.execute_result,
                                           !.rownumber = r.cur.rownumber,
                                           !.description = r.cur.description,
                                           !.rowcount = r.cur.rowcount]
                   ELSE cursors[d]]
  /\ connection' = r.conn
  /\ typoid_typeobjs' = r.cache
  /\ hostOpen' = ScopesAfter(hostOpen, r.host)
  /\ last' = Call(op, c, r.raised, <<>>, r.host)
  /\ UNCHANGED hasColnames

\* an execute or executemany call on cursor c that ended as r
ExecuteDone(op, c, r) ==
  /\ cursors' = [cursors EXCEPT ![c] = r.cur]
  /\ connection' = r.conn
  /\ typoid_typeobjs' = r.cache
  /\ hostOpen' = ScopesAfter(hostOpen, r.host)
  /\ last' = Call(op, c, r.raised, <<>>, r.host)
  /\ UNCHANGED hasColnames

\* Cursor.execute(operation, parameters), the host answering from answers
Cursor_execute(c, answers) ==
  /\ cursors[c].created
  /\ \E args \in ExecuteArgs :
       \E h \in IF ~IsClosed(cursors[c], connection) /\ Formats(args)
                THEN answers ELSE {Unasked} :
         ExecuteDone("execute", c,
                     ExecuteCall(cursors[c], connection, typoid_typeobjs,
                                 hasColnames, args.operation, args.parameters, h))

\* Cursor.executemany(operation, seq_of_parameters): up to MaxSets parameter
\* sets of one parameter each, the host answering the k-th execute with hs[k]
Cursor_executemanyOf(c, hs) ==
  /\ cursors[c].created
  /\ ExecuteDone("executemany", c,
                 ExecuteManyCall(cursors[c], connection, typoid_typeobjs,
                                 hasColnames, 1, [k \in DOMAIN hs |-> <<PyStr>>], hs))

Cursor_executemany(c, answers) ==
  \E hs \in SeqsUpTo(answers, MaxSets) : Cursor_executemanyOf(c, hs)

\* a fetchone, fetchmany, fetchall, next or scroll call on cursor c, with
\* the arguments args, that ended as r and returned ret
FetchDone(op, c, args, r, ret) ==
  /\ cursors' = [cursors EXCEPT ![c] = r.cur]
  /\ last' = CallWith(op, c, args, r.raised, ret, <<>>)
  /\ UNCHANGED <<connection, typoid_typeobjs, hasColnames, hostOpen>>

\* Cursor.fetchone()
Cursor_fetchone(c) ==
  /\ cursors[c].created
  /\ LET r == FetchOne(cursors[c]) IN FetchDone("fetchone", c, <<>>, r, r.ret)

\* Cursor.next()
Cursor_next(c) ==
  /\ cursors[c].created
  /\ LET r == CursorNext(cursors[c]) IN FetchDone("next", c, <<>>, r, r.ret)

\* rownumber is at most MaxOver beyond the end of the rows
WithinOver(cur) ==
  IF IsNone(cur.rownumber) \/ IsNone(cur.execute_result) THEN TRUE
  ELSE Val(cur.rownumber) <= Len(Val(cur.execute_result)) + MaxOver

\* Cursor.fetchmany(size), size from sizes
Cursor_fetchmany(c, sizes) ==
  /\ cursors[c].created
  /\ \E size \in sizes :
       LET r == FetchMany(cursors[c], size)
       IN /\ WithinOver(r.cur)
          /\ FetchDone("fetchmany", c, <<size>>, r, r.ret)

\* Cursor.fetchall()
Cursor_fetchall(c) ==
  /\ cursors[c].created
  /\ LET r == FetchAll(cursors[c]) IN FetchDone("fetchall", c, <<>>, r, r.ret)

\* Cursor.scroll(value, mode), value from values
ScrollModes == {"relative", "absolute", "backwards"}

Cursor_scroll(c, values) ==
  /\ cursors[c].created
  /\ \E value \in values, mode \in ScrollModes :
       FetchDone("scroll", c, <<value, mode>>, Scroll(cursors[c], value, mode), <<>>)

\* ----------------------------------------------------------- specifications
\* hist[c] after the call on cursor c, which took it from pre to post
HistNext(h, pre, post, call) ==
  LET mixed == [kind |-> "mixed", fetched |-> <<>>, calls |-> 0]
  IN CASE call.op \in {"execute", "executemany"} ->
            IF "execute" \in call.asked THEN NoHist ELSE h
       [] call.op \in {"fetchone", "next"} ->
            IF call.raised \in {"Error", "TypeError"} THEN h
            ELSE IF h.kind \in {"none", "one"} /\ call.raised # "IndexError"
            THEN [kind |-> "one", fetched |-> h.fetched \o call.ret,
                  calls |-> Min(h.calls + 1, MaxCalls)]
            ELSE mixed
       [] call.op = "fetchmany" ->
            IF call.raised # "none" THEN h
            ELSE IF h.kind \in {"none", "many"}
                    /\ Val(post.rownumber) - Val(pre.rownumber) >= 1
            THEN [kind |-> "many", fetched |-> h.fetched \o call.ret, calls |-> 0]
            ELSE mixed
       [] call.op \in {"fetchall", "scroll"} ->
            IF IsNone(pre.execute_result) THEN h ELSE mixed
       [] OTHER -> h

Trace ==
  /\ hist' = [c \in Cursors |->
             IF last'.cur = c
             THEN HistNext(hist[c], cursors[c], cursors'[c], last')
             ELSE hist[c]]
  /\ UNCHANGED env

\* The session: the connection and two cursors, which execute statements
\* and fetch the rows one by one.  The host answers a select with the one
\* row "a".
SessionAnswersAsk ==
  {h \in HostAnswers(1, TRUE) :
     /\ h.status \in {SPI_OK_UTILITY, SPI_OK_INSERT, SPI_OK_SELECT}
     /\ h.status = SPI_OK_SELECT => h.rows = <<"a">> /\ h.coltype = 23
     /\ h.status = SPI_OK_INSERT => h.nrows = 1}
SessionAnswersNoAsk == {h \in SessionAnswersAsk : ~h.catalog.error}
SessionAnswers == IF WillAsk THEN SessionAnswersAsk ELSE SessionAnswersNoAsk

\* the answers to the execute calls of executemany: the pg_type query of
\* such a call is taken to succeed
ManyAnswers ==
  {h \in SessionAnswersNoAsk : h.execute = "ok" /\ h.status # SPI_OK_INSERT}

Next ==
  \/ connect /\ UNCHANGED <<hist, env>>
  \/ Connection_commit /\ UNCHANGED <<hist, env>>
  \/ Connection_rollback /\ UNCHANGED <<hist, env>>
  \/ Connection_close /\ UNCHANGED <<hist, env>>
  \/ \E c \in Cursors :
       \/ Connection_cursor(c) /\ UNCHANGED <<hist, env>>
       \/ Cursor_close(c) /\ UNCHANGED <<hist, env>>
       \/ Cursor_execute(c, SessionAnswers) /\ UNCHANGED <<hist, env>>
       \/ Cursor_executemany(c, ManyAnswers) /\ UNCHANGED <<hist, env>>
       \/ Cursor_fetchone(c) /\ UNCHANGED <<hist, env>>

Spec == Init /\ [][Next]_vars

\* ------------------------------------------------- the session's properties
\* C1: once an execute call on a cursor has got past the closed check and has
\* returned or raised, the cursor holds no rows of an earlier execute: its
\* result buffer is None or was built from the host's answer to this call.
C1_NoStaleRows ==
  \A c \in Cursors :
    (/\ last.op = "execute" /\ last.cur = c
     /\ (last.raised \notin {"none", "Error"} \/ last.scope # <<>> \/ last.asked # {}))
    => (IsNone(cursors[c].execute_result) \/ "execute" \in last.asked)

\* C2: an execute on a cursor whose session is closed, or that is closed
\* itself, raises Error, enters no subtransaction, calls neither prepare nor
\* execute (nor anything else) on the host, and leaves the cursor as it was.
C2_ClosedRejectsExecute ==
  [][\A c \in Cursors :
       (/\ last'.op = "execute" /\ last'.cur = c
        /\ (connection.closed \/ cursors[c].closed))
       => /\ last'.raised = "Error"
          /\ last'.scope = <<>> /\ last'.asked = {}
          /\ hostOpen' = hostOpen
          /\ cursors'[c] = cursors[c]
          /\ connection' = connection]_vars

\* a cursor with buffered rows has refused an execute on the closed session
C2_Witness ==
  /\ connection.closed /\ last.op = "execute" /\ last.raised = "Error"
  /\ last.cur \in Cursors
  /\ ~cursors[last.cur].closed /\ ~IsNone(cursors[last.cur].execute_result)

\* C3: on an open session commit and rollback return normally and call the
\* host only to leave the subtransaction: not at all when the session holds
\* none, once with None (commit) or once with an exception (rollback) when
\* it holds one; the session holds none afterwards.
C3_CommitRollback ==
  [][(last'.op \in {"commit", "rollback"} /\ ~connection.closed)
     => /\ last'.raised = "none"
        /\ last'.asked = {}
        /\ last'.scope = IF IsNone(connection.subxact) THEN <<>>
                         ELSE IF last'.op = "commit" THEN <<"exit(None)">>
                         ELSE <<"exit(fake exception)">>
        /\ IsNone(connection'.subxact)
        /\ hostOpen' = 0]_vars

\* a commit has left the subtransaction that an execute had entered
C3_Witness ==
  /\ last.op = "commit" /\ last.scope = <<"exit(None)">>
  /\ IsNone(connection.subxact) /\ hostOpen = 0

\* C4: close on an open session leaves the pending subtransaction, if any,
\* with an exception (never with None) and marks the session closed; on a
\* closed session close, commit and rollback raise Error, call the host not
\* at all and change nothing; a closed session stays closed.
C4_Close ==
  [][/\ (last'.op = "close" /\ ~connection.closed)
        => /\ last'.raised = "none"
           /\ last'.asked = {}
           /\ last'.scope = IF IsNone(connection.subxact) THEN <<>>
                            ELSE <<"exit(fake exception)">>
           /\ connection'.closed /\ IsNone(connection'.subxact)
           /\ hostOpen' = 0
     /\ (last'.op \in {"close", "commit", "rollback"} /\ connection.closed)
        => /\ last'.raised = "Error"
           /\ last'.scope = <<>> /\ last'.asked = {}
           /\ connection' = connection /\ hostOpen' = hostOpen
           /\ cursors' = cursors
     /\ connection.closed => connection'.closed]_vars

\* the session was closed with a subtransaction pending, or closed twice
C4_Witness ==
  /\ connection.closed /\ last.op = "close"
  /\ last.raised = "Error" \/ last.scope = <<"exit(fake exception)">>

\* C5: the host's subtransactions are entered and left in turn, at most one
\* is open, and one is open exactly when the session holds a reference to
\* it; a subtransaction is entered only by execute (executemany included),
\* once, and only when the session held none.
C5_ScopesAlternate ==
  /\ [](hostOpen \in {0, 1} /\ (hostOpen = 1 <=> ~IsNone(connection.subxact)))
  /\ [][(\E i \in DOMAIN last'.scope : last'.scope[i] = "enter")
        => /\ last'.op \in {"execute", "executemany"}
           /\ IsNone(connection.subxact) /\ hostOpen = 0
           /\ last'.scope = <<"enter">>
           /\ hostOpen' = 1]_vars

\* the second cursor has executed in the subtransaction the first one entered
C5_Witness ==
  /\ hostOpen = 1 /\ last.op = "execute" /\ last.cur = "c2"
  /\ last.raised = "none" /\ last.scope = <<>> /\ "execute" \in last.asked
  /\ cursors["c1"].rowcount # -1

\* One cursor and the reading of its rows.  The host answers a select with
\* up to MaxRows rows (the other row-returning statements with the one row
\* "a"), in a column of type 23.
FetchAnswersAsk ==
  {h \in HostAnswers(MaxRows, TRUE) :
     /\ h.status \in RowStatuses => h.coltype = 23
     /\ h.status \in RowStatuses \ {SPI_OK_SELECT} => h.rows = <<"a">>}
FetchAnswersNoAsk == {h \in FetchAnswersAsk : ~h.catalog.error}
FetchAnswers == IF WillAsk THEN FetchAnswersAsk ELSE FetchAnswersNoAsk

FetchSizes == {None} \cup {Some(n) : n \in 0..MaxSize}
ScrollValues == -1..(MaxRows + 1)

NextFetch ==
  \/ connect /\ Trace
  \/ Connection_cursor("c1") /\ Trace
  \/ Cursor_arraysize("c1") /\ Trace
  \/ Cursor_execute("c1", FetchAnswers) /\ Trace
  \/ Cursor_fetchone("c1") /\ Trace
  \/ Cursor_next("c1") /\ Trace
  \/ Cursor_fetchmany("c1", FetchSizes) /\ Trace
  \/ Cursor_fetchall("c1") /\ Trace
  \/ Cursor_scroll("c1", ScrollValues) /\ Trace

SpecFetch == Init /\ [][NextFetch]_vars

\* ------------------------------------------- the properties of the reading
\* C6: fetchone raises Error when the cursor has no result buffer; returns
\* None and leaves the cursor as it is when rownumber has reached the end of
\* the buffer; otherwise returns the row at rownumber and adds one to
\* rownumber.  It ends in no other way.
C6_FetchOneOutcomes ==
  [][last'.op = "fetchone"
     => LET c == last'.cur
            cur == cursors[c]
        IN IF IsNone(cur.execute_result)
           THEN last'.raised = "Error" /\ cursors' = cursors
           ELSE LET buf == Val(cur.execute_result)
                    pos == Val(cur.rownumber)
                IN IF pos >= Len(buf)
                   THEN /\ last'.raised = "none" /\ last'.ret = None
                        /\ cursors' = cursors
                   ELSE /\ last'.raised = "none" /\ last'.ret = Some(buf[pos + 1])
                        /\ cursors'[c] = [cur EXCEPT !.rownumber = Some(pos + 1)]]_vars

\* C7: when only fetchone and next have read a buffer of N rows, the k-th of
\* these calls returned the k-th row for k <= N and signalled the end (None
\* from fetchone, StopIteration from next) for every k > N; the rows
\* returned so far are the first rows of the buffer, in order.
C7_OneByOne ==
  \A c \in Cursors :
    hist[c].kind = "one"
    => LET buf == Val(cursors[c].execute_result)
           N == Len(buf)
           k == hist[c].calls
       IN /\ hist[c].fetched = SubSeq(buf, 1, Min(k, N))
          /\ cursors[c].rownumber = Some(Min(k, N))
          /\ (last.cur = c /\ last.op \in {"fetchone", "next"})
             => IF k > N
                THEN /\ last.ret = None
                     /\ last.raised = IF last.op = "next" THEN "StopIteration"
                                      ELSE "none"
                ELSE last.raised = "none" /\ last.ret = Some(buf[k])

\* next has signalled the end twice after fetchone and next returned all of
\* the MaxRows rows
C7_Witness ==
  /\ hist["c1"].kind = "one" /\ hist["c1"].calls = MaxRows + 2
  /\ Len(hist["c1"].fetched) = MaxRows
  /\ last.op = "next" /\ last.raised = "StopIteration"

\* C8: fetchmany raises Error when the cursor has no result buffer; otherwise
\* (with n >= 0 rows asked for, arraysize when no size is given, which is 1
\* on a new cursor) it returns the rows at [rownumber, rownumber + n) that
\* the buffer has and adds n to rownumber; when only fetchmany calls of a
\* size >= 1 have read the buffer, the rows returned so far are the rows
\* before rownumber, in order, and a call at or beyond the end returns none.
C8_FetchMany ==
  /\ [](/\ \A c \in Cursors :
             hist[c].kind = "many"
             => LET buf == Val(cursors[c].execute_result)
                IN hist[c].fetched =
                     SubSeq(buf, 1, Min(Val(cursors[c].rownumber), Len(buf)))
        /\ last.op = "cursor" => cursors[last.cur].arraysize = 1)
  /\ [][last'.op = "fetchmany"
        => LET c == last'.cur
               cur == cursors[c]
               size == last'.args[1]
               n == IF IsNone(size) THEN cur.arraysize ELSE Val(size)
           IN IF IsNone(cur.execute_result)
              THEN last'.raised = "Error" /\ cursors' = cursors
              ELSE LET buf == Val(cur.execute_result)
                       L == Len(buf)
                       pos == Val(cur.rownumber)
                   IN /\ last'.raised = "none"
                      /\ last'.ret = SubSeq(buf, Min(pos, L) + 1, Min(pos + n, L))
                      /\ pos >= L => last'.ret = <<>>
                      /\ cursors'[c] = [cur EXCEPT !.rownumber = Some(pos + n)]]_vars

\* fetchmany calls of the default size have returned all of the MaxRows rows
\* and then an empty sequence
C8_Witness ==
  /\ hist["c1"].kind = "many"
  /\ ~IsNone(cursors["c1"].execute_result)
  /\ hist["c1"].fetched = Val(cursors["c1"].execute_result)
  /\ Len(hist["c1"].fetched) = MaxRows
  /\ last.op = "fetchmany" /\ last.args = <<None>> /\ last.ret = <<>>
  /\ last.raised = "none"

\* C9: fetchall raises Error when the cursor has no result buffer; otherwise
\* it returns the rows from rownumber to the end and sets rownumber to the
\* length of the buffer.  A fetchone right after it returns None, a fetchall
\* right after it or after that fetchone returns no rows, and a fetchall
\* right after the execute that built the buffer returns all of its rows.
C9_FetchAll ==
  [][/\ last'.op = "fetchall"
        => LET c == last'.cur
               cur == cursors[c]
           IN IF IsNone(cur.execute_result)
              THEN last'.raised = "Error" /\ cursors' = cursors
              ELSE LET buf == Val(cur.execute_result)
                       pos == Val(cur.rownumber)
                   IN /\ last'.raised = "none"
                      /\ last'.ret = SubSeq(buf, pos + 1, Len(buf))
                      /\ cursors'[c] = [cur EXCEPT !.rownumber = Some(Len(buf))]
                      /\ (last.op = "execute" /\ last.cur = c /\ "execute" \in last.asked)
                         => last'.ret = buf
     /\ (last.op = "fetchall" /\ last.raised = "none" /\ last'.cur = last.cur)
        => /\ last'.op = "fetchone" => last'.raised = "none" /\ last'.ret = None
           /\ last'.op = "fetchall" => last'.raised = "none" /\ last'.ret = <<>>
     /\ (/\ last.op = "fetchone" /\ last.raised = "none" /\ last.ret = None
         /\ last'.cur = last.cur /\ last'.op = "fetchall")
        => last'.raised = "none" /\ last'.ret = <<>>]_vars

\* fetchall has returned all of the MaxRows rows
C9_Witness ==
  /\ last.op = "fetchall" /\ last.raised = "none" /\ Len(last.ret) = MaxRows
  /\ cursors["c1"].rownumber = Some(MaxRows)

\* C10: on a cursor with a result buffer of L rows, scroll raises ValueError
\* for a mode other than relative and absolute; otherwise, with the target
\* rownumber + value (relative) or value (absolute), it raises IndexError
\* when the target is negative or greater than L and sets rownumber to the
\* target when it is not; when it raises, the cursor is as it was.  A
\* fetchall right after scroll(0, 'absolute') returns the whole buffer.
C10_Scroll ==
  [][/\ (last'.op = "scroll" /\ ~IsNone(cursors[last'.cur].execute_result))
        => LET c == last'.cur
               cur == cursors[c]
               value == last'.args[1]
               mode == last'.args[2]
               L == Len(Val(cur.execute_result))
               target == IF mode = "relative" THEN Val(cur.rownumber) + value
                         ELSE value
           IN IF mode \notin {"relative", "absolute"}
              THEN last'.raised = "ValueError" /\ cursors' = cursors
              ELSE IF target < 0 \/ target > L
              THEN last'.raised = "IndexError" /\ cursors' = cursors
              ELSE /\ last'.raised = "none"
                   /\ cursors'[c] = [cur EXCEPT !.rownumber = Some(target)]
     /\ (/\ last.op = "scroll" /\ last.raised = "none"
         /\ last.args = <<0, "absolute">>
         /\ last'.op = "fetchall" /\ last'.cur = last.cur)
        => /\ last'.raised = "none"
           /\ last'.ret = Val(cursors[last.cur].execute_result)]_vars

\* scroll(0, 'absolute') has set rownumber back to the first of MaxRows rows
C10_Witness ==
  /\ last.op = "scroll" /\ last.raised = "none" /\ last.args = <<0, "absolute">>
  /\ cursors["c1"].rownumber = Some(0)
  /\ Len(Val(cursors["c1"].execute_result)) = MaxRows
  /\ hist["c1"].kind = "mixed"

\* ------------------------------------------------ the results of execute
\* One cursor, its execute calls with the answers of the host on record,
\* and the reading of the result.
MaxQueries == 2

\* env after a call for which the host had the answers hs ready
Observe(hs) ==
  /\ env' = [answers |-> hs,
             queries |-> IF last'.asked \cap {"pg_type", "pg_type:SPIError"} # {}
                         THEN Min(env.queries + 1, MaxQueries)
                         ELSE env.queries,
             args |-> <<>>]
  /\ UNCHANGED hist

NextExec ==
  \/ connect /\ Observe(<<>>)
  \/ Connection_cursor("c1") /\ Observe(<<>>)
  \/ \E h \in FetchAnswers : Cursor_execute("c1", {h}) /\ Observe(<<h>>)
  \/ Cursor_fetchone("c1") /\ Observe(<<>>)
  \/ Cursor_fetchmany("c1", {None}) /\ Observe(<<>>)
  \/ Cursor_fetchall("c1") /\ Observe(<<>>)

SpecExec == Init /\ [][NextExec]_vars

\* C11: after an execute that returned, the cursor is as the status of the
\* host's result says: for select and the three returning statuses it holds
\* all rows of the host in their order, at rownumber 0, with a description;
\* for any other status it has no buffer, no rownumber and no description,
\* and fetchone, fetchmany and fetchall raise Error; rowcount is -1 for the
\* utility status and nrows() for every other status.
C11_ResultByStatus ==
  /\ last.op = "execute" /\ last.raised = "none"
     => LET h == env.answers[1]
            cur == cursors[last.cur]
        IN /\ IF h.status \in {SPI_OK_SELECT, SPI_OK_INSERT_RETURNING,
                               SPI_OK_UPDATE_RETURNING, SPI_OK_DELETE_RETURNING}
              THEN /\ cur.execute_result = Some(h.rows)
                   /\ cur.rownumber = Some(0)
                   /\ ~IsNone(cur.description)
              ELSE /\ IsNone(cur.execute_result)
                   /\ IsNone(cur.rownumber)
                   /\ IsNone(cur.description)
           /\ cur.rowcount = IF h.status = SPI_OK_UTILITY THEN -1 ELSE h.nrows
  /\ (/\ last.op \in {"fetchone", "fetchmany", "fetchall"}
      /\ IsNone(cursors[last.cur].execute_result))
     => last.raised = "Error"

\* an update with a returning clause has left its row in the buffer
C11_Witness ==
  /\ last.op = "execute" /\ last.raised = "none"
  /\ env.answers # <<>>
  /\ env.answers[1].status = SPI_OK_UPDATE_RETURNING
  /\ cursors["c1"].execute_result = Some(<<"a">>)
  /\ cursors["c1"].rowcount = 1

\* -------------------------------------------- the parameters of execute
\* The loop of Cursor.execute over the parameters, applied to every sequence
\* of up to MaxParams parameters: None, a str, True, a memoryview.
MaxParams == 3

PyBytes == PyValue({"byte_types"}, TRUE)
ParamVals == {PyNone, PyStr, PyTrue, PyBytes}

InitBind ==
  /\ connection = NoConnection
  /\ cursors = [c \in Cursors |-> NoCursor]
  /\ typoid_typeobjs = <<>>
  /\ hasColnames \in BOOLEAN
  /\ hostOpen = 0
  /\ last = Call("import", "-", "none", <<>>, <<>>)
  /\ hist = [c \in Cursors |-> NoHist]
  /\ \E parameters \in SeqsUpTo(ParamVals, MaxParams) :
       env = [NoEnv EXCEPT !.args = <<parameters>>]

\* lines 193-209 of Cursor.execute, for the parameters env.args[1]
Bind ==
  /\ last.op = "import"
  /\ last' = CallWith("bind", "-", env.args, "none",
                      <<BindParameters(env.args[1], NoBinding)>>, <<>>)
  /\ UNCHANGED <<connection, cursors, typoid_typeobjs, hasColnames, hostOpen,
                 hist, env>>

NextBind == Bind

SpecBind == InitBind /\ [][NextBind]_vars

\* C12: there is one placeholder per parameter, in order: "NULL" for a
\* parameter that is None, "$k" for the k-th parameter that is not None;
\* the types and the values have one item for each parameter that is not
\* None, at index k the inferred type and the value (or its tobytes()) of
\* the k-th such parameter; so with no None among the parameters, there are
\* as many types and values as parameters.
C12_OnePlaceholderEach ==
  last.op = "bind"
  => LET ps == env.args[1]
         b == last.ret[1]
         K(i) == Cardinality({j \in 1..i : ~ps[j].none})
         m == K(Len(ps))
     IN /\ Len(b.placeholders) = Len(ps)
        /\ Len(b.types) = m /\ Len(b.values) = m
        /\ (\A j \in 1..Len(ps) : ~ps[j].none) => m = Len(ps)
        /\ \A i \in 1..Len(ps) :
             IF ps[i].none THEN b.placeholders[i] = "NULL"
             ELSE /\ b.placeholders[i] = "$" \o ToString(K(i))
                  /\ b.types[K(i)] = py_param_to_pg_type(ps[i])
                  /\ b.values[K(i)].param = ps[i]
                  /\ b.values[K(i)].as =
                       IF ps[i].tobytes /\ py_param_to_pg_type(ps[i]) = "bytea"
                       THEN "tobytes()" ELSE "itself"

\* MaxParams parameters, the first of them None, have been bound
C12_Witness ==
  /\ last.op = "bind" /\ Len(env.args[1]) = MaxParams
  /\ env.args[1][1].none /\ ~env.args[1][MaxParams].none
  /\ last.ret[1].placeholders[1] = "NULL"
  /\ Len(last.ret[1].types) = MaxParams - 1

\* ------------------------------------------------- the errors of the host
\* C13: when a call that execute makes on the host (plpy.prepare,
\* plpy.execute, the pg_type query of get_type_obj) raises SPIError, the
\* execute call raises Error; SPIError itself never reaches the caller.
C13_HostErrorsWrapped ==
  last.op = "execute"
  => /\ last.asked \cap {"prepare:SPIError", "execute:SPIError", "pg_type:SPIError"} # {}
        => last.raised = "Error"
     /\ last.raised # "SPIError"

\* ------------------------------------------------------------ executemany
\* One cursor and its executemany calls, with the answers of the host on
\* record: a failure of prepare, a utility statement, an insert of up to
\* MaxRows rows, a select of one row.
ExecManyAnswers ==
  {h \in FetchAnswersNoAsk :
     /\ h.execute = "ok"
     /\ h.status \in {SPI_OK_UTILITY, SPI_OK_INSERT, SPI_OK_SELECT}
     /\ h.status = SPI_OK_SELECT => h.rows = <<"a">>}

NextMany ==
  \/ connect /\ Observe(<<>>)
  \/ Connection_cursor("c1") /\ Observe(<<>>)
  \/ \E hs \in SeqsUpTo(ExecManyAnswers, MaxSets) :
       Cursor_executemanyOf("c1", hs) /\ Observe(hs)

SpecMany == Init /\ [][NextMany]_vars

\* C14: when executemany returns, it has executed the statement once for
\* each parameter set, in order (the cursor holds the result of the last
\* one), and rowcount is -1 if one of the executions reported -1, and the
\* sum of the rowcounts they reported if none did.
C14_ManyRowcount ==
  (last.op = "executemany" /\ last.raised = "none")
  => LET hs == env.answers
         count(k) == IF hs[k].status = SPI_OK_UTILITY THEN -1 ELSE hs[k].nrows
         RECURSIVE sum(_)
         sum(k) == IF k = 0 THEN 0 ELSE sum(k - 1) + count(k)
         cur == cursors[last.cur]
     IN /\ cur.rowcount = IF \E k \in DOMAIN hs : count(k) = -1 THEN -1
                          ELSE sum(Len(hs))
        /\ hs # <<>>
           => cur.execute_result =
                IF hs[Len(hs)].status = SPI_OK_SELECT THEN Some(hs[Len(hs)].rows)
                ELSE None

\* ------------------------------------------------ two cursors, every method
\* The connection and two cursors: every method of the first one; of the
\* second one execute, fetchone and close.  The host answers with a failure
\* of prepare, a utility statement or a select of the one row "a";
\* fetchmany is called with the default size and scroll with the value 0.
NextFrame ==
  \/ connect /\ UNCHANGED <<hist, env>>
  \/ Connection_commit /\ UNCHANGED <<hist, env>>
  \/ Connection_rollback /\ UNCHANGED <<hist, env>>
  \/ Connection_close /\ UNCHANGED <<hist, env>>
  \/ \E c \in Cursors :
       \/ Connection_cursor(c) /\ UNCHANGED <<hist, env>>
       \/ Cursor_close(c) /\ UNCHANGED <<hist, env>>
       \/ Cursor_execute(c, ManyAnswers) /\ UNCHANGED <<hist, env>>
       \/ Cursor_fetchone(c) /\ UNCHANGED <<hist, env>>
  \/ Cursor_executemany("c1", ManyAnswers) /\ UNCHANGED <<hist, env>>
  \/ Cursor_fetchmany("c1", {None}) /\ UNCHANGED <<hist, env>>
  \/ Cursor_fetchall("c1") /\ UNCHANGED <<hist, env>>
  \/ Cursor_scroll("c1", {0}) /\ UNCHANGED <<hist, env>>

SpecFrame == Init /\ [][NextFrame]_vars

\* C15: Cursor.close() returns normally, on a closed cursor as on an open
\* one, leaves the cursor closed and changes nothing else: not the rest of
\* the cursor, not the other cursors, not the connection, not the host's
\* subtransaction.
C15_CursorCloseIdempotent ==
  [][\A c \in Cursors :
       (last'.op = "cursor.close" /\ last'.cur = c)
       => /\ last'.raised = "none"
          /\ last'.scope = <<>> /\ last'.asked = {}
          /\ cursors' = [cursors EXCEPT ![c].closed = TRUE]
          /\ connection' = connection
          /\ hostOpen' = hostOpen]_vars

\* a cursor with rows left to read was closed while the subtransaction was
\* open
C15_Witness ==
  /\ last.op = "cursor.close" /\ last.cur = "c1" /\ last.raised = "none"
  /\ cursors["c1"].closed
  /\ cursors["c1"].execute_result = Some(<<"a">>)
  /\ cursors["c1"].rownumber = Some(0)
  /\ hostOpen = 1

\* C18: a call on one cursor leaves every other cursor as it was, and a
\* call on the connection (commit, rollback, close) leaves every cursor as
\* it was; the rows a cursor has buffered can be fetched after the
\* connection was closed.
C18_CursorsIndependent ==
  [][/\ \A c \in Cursors : last'.cur # c => cursors'[c] = cursors[c]
     /\ last'.op \in {"commit", "rollback", "close"} => cursors' = cursors
     /\ \A c \in Cursors :
          (/\ last'.op = "fetchone" /\ last'.cur = c /\ connection.closed
           /\ cursors[c].execute_result = Some(<<"a">>)
           /\ cursors[c].rownumber = Some(0))
          => last'.raised = "none" /\ last'.ret = Some("a")]_vars

\* the first cursor has executed a statement without a result while the
\* second one held a row, which it still holds
C18_Witness ==
  /\ last.op \in {"execute", "executemany"} /\ last.cur = "c1"
  /\ last.raised = "none" /\ "execute" \in last.asked
  /\ IsNone(cursors["c1"].execute_result)
  /\ cursors["c2"].execute_result = Some(<<"a">>)
  /\ cursors["c2"].rownumber = Some(0)

\* C19: an execute call that gets past the closed check leaves the
\* connection with its subtransaction open, whether it returns or raises:
\* it enters one if none is open and leaves none; a subtransaction is left
\* only by commit, rollback and close.
C19_ScopeStaysOpen ==
  [][/\ \A c \in Cursors :
          (/\ last'.op = "execute" /\ last'.cur = c
           /\ ~cursors[c].closed /\ ~connection.closed)
          => /\ ~IsNone(connection'.subxact)
             /\ hostOpen' = 1
             /\ last'.scope = IF hostOpen = 1 THEN <<>> ELSE <<"enter">>
     /\ (\E i \in DOMAIN last'.scope :
           last'.scope[i] \in {"exit(None)", "exit(fake exception)"})
        => last'.op \in {"commit", "rollback", "close"}]_vars

\* the first execute of the session failed in plpy.prepare and has left the
\* subtransaction it entered open
C19_Witness ==
  /\ last.op = "execute" /\ last.raised = "Error"
  /\ last.scope = <<"enter">> /\ "prepare:SPIError" \in last.asked
  /\ hostOpen = 1 /\ ~IsNone(connection.subxact)

\* ------------------------------------------------ the type of a parameter
\* py_param_to_pg_type applied to every value, a value being known by the
\* isinstance checks it passes.
Checks == {"bool", "Decimal", "float", "long", "int", "byte_types", "list"}

InitTypes ==
  /\ connection = NoConnection
  /\ cursors = [c \in Cursors |-> NoCursor]
  /\ typoid_typeobjs = <<>>
  /\ hasColnames \in BOOLEAN
  /\ hostOpen = 0
  /\ last = Call("import", "-", "none", <<>>, <<>>)
  /\ hist = [c \in Cursors |-> NoHist]
  /\ \E isa \in SUBSET Checks, tobytes \in BOOLEAN :
       env = [NoEnv EXCEPT !.args = <<PyValue(isa, tobytes)>>]

\* Cursor.py_param_to_pg_type(env.args[1])
InferType ==
  /\ last.op = "import"
  /\ last' = CallWith("py_param_to_pg_type", "-", env.args, "none",
                      <<py_param_to_pg_type(env.args[1])>>, <<>>)
  /\ UNCHANGED <<connection, cursors, typoid_typeobjs, hasColnames, hostOpen,
                 hist, env>>

NextTypes == InferType

SpecTypes == InitTypes /\ [][NextTypes]_vars

\* C16: the type inferred for a value is the type of the first check the
\* value passes, the checks being made in the order bool, Decimal, float,
\* integer (long, int), byte sequence, list, and it is text when the value
\* passes none; a value that passes the bool and the int check is a bool.
C16_FirstMatchWins ==
  last.op = "py_param_to_pg_type"
  => LET isa == env.args[1].isa
         order == <<"bool", "Decimal", "float", "long", "int", "byte_types", "list">>
         types == <<"bool", "numeric", "float8", "int", "int", "bytea", "text[]">>
         passed == {i \in DOMAIN order : order[i] \in isa}
     IN /\ last.raised = "none"
        /\ last.ret = IF passed = {} THEN <<"text">>
                      ELSE <<types[CHOOSE i \in passed : \A j \in passed : i <= j]>>
        /\ {"bool", "int"} \subseteq isa => last.ret = <<"bool">>

\* the type of True, which is a bool and an int, has been inferred
C16_Witness ==
  /\ last.op = "py_param_to_pg_type"
  /\ env.args[1].isa = {"bool", "int"}
  /\ last.ret = <<"bool">>

\* ------------------------------------------------------- the type cache
\* C17: get_type_obj queries pg_type in the first lookup only, whatever the
\* host answered to it: over all the execute calls of the process the query
\* is made once at most.
C17_CatalogQueriedOnce == env.queries <= 1

\* C20: a cursor has a result buffer exactly when it has a rownumber, and
\* exactly when it has a description.
C20_ResultFieldsAgree ==
  \A c \in Cursors :
    /\ IsNone(cursors[c].execute_result) <=> IsNone(cursors[c].rownumber)
    /\ IsNone(cursors[c].rownumber) <=> IsNone(cursors[c].description)
====
